---- MODULE Spec2Model ----
(***************************************************************************)
(* Catalog migration v80 -> v81 (src/catalog/src/durable/upgrade/          *)
(* v80_to_v81.rs): `upgrade` walks a v80 snapshot and emits one            *)
(* MigrationAction::Update per Cluster entry, translating the cluster into *)
(* its v81 shape with the new field `sealed` set to false.  The actions    *)
(* are then folded into the snapshot by the Snapshot Applier.              *)
(*                                                                         *)
(* A value of a versioned type carries the version of its type in `ver`:   *)
(* v80::RoleId::System(1) and v81::RoleId::System(1) are different values. *)
(* Enum cases are told apart by `tag`.  Option<T> is [tag |-> "None"] or   *)
(* [tag |-> "Some", val |-> x]; Vec<T> is a sequence.                      *)
(***************************************************************************)
EXTENDS Integers, Sequences, FiniteSets

\* ------------------------------------------------------------------ bounds

\* Longest input snapshot.
MaxLen == 3
\* Largest inner id of a user cluster id.
MaxId == 2

\* ------------------------------------------------------- v80 object model

OptNone == [tag |-> "None"]
OptSome(x) == [tag |-> "Some", val |-> x]

RoleId(v, tag, id) ==
    IF tag = "Public" THEN [ver |-> v, tag |-> "Public"]
    ELSE [ver |-> v, tag |-> tag, id |-> id]

ClusterId(v, tag, id) == [ver |-> v, tag |-> tag, id |-> id]

Duration(v, secs, nanos) == [ver |-> v, secs |-> secs, nanos |-> nanos]

MzAclItem(v, grantee, grantor, bits) ==
    [ver |-> v, grantee |-> grantee, grantor |-> grantor,
     acl_mode |-> [ver |-> v, bitflags |-> bits]]

V80Unmanaged == [ver |-> "v80", tag |-> "Unmanaged"]

V80Managed(size, rf, zones, log, interval, overrides, schedule) ==
    [ver |-> "v80", tag |-> "Managed",
     m |-> [ver |-> "v80", size |-> size, replication_factor |-> rf,
            availability_zones |-> zones,
            logging |-> [ver |-> "v80", log_logging |-> log,
                         interval |-> interval],
            optimizer_feature_overrides |-> overrides,
            schedule |-> schedule]]

V80Manual == [ver |-> "v80", tag |-> "Manual"]
V80Refresh(secs, nanos) ==
    [ver |-> "v80", tag |-> "Refresh",
     r |-> [ver |-> "v80",
            rehydration_time_estimate |-> Duration("v80", secs, nanos)]]

V80Override(name, value) == [ver |-> "v80", name |-> name, value |-> value]

V80ClusterValue(name, owner, privileges, workload, variant) ==
    [ver |-> "v80", name |-> name, owner_id |-> owner,
     privileges |-> privileges,
     config |-> [ver |-> "v80", workload_class |-> workload,
                 variant |-> variant]]

\* The cluster values of the generated snapshots.  Between them they take
\* every case of every enum of the cluster shape, empty and non-empty lists,
\* absent and present options.
V80ClusterValues ==
    { V80ClusterValue("c1", RoleId("v80", "System", 1), <<>>, OptNone,
                      V80Unmanaged),
      V80ClusterValue("c2", RoleId("v80", "User", 1),
          << MzAclItem("v80", RoleId("v80", "Public", 0),
                       RoleId("v80", "System", 1), 256),
             MzAclItem("v80", RoleId("v80", "Predefined", 1),
                       RoleId("v80", "User", 2), 512) >>,
          OptSome("w"),
          V80Managed("s1", 2, <<"z1", "z2">>, TRUE,
                     OptSome(Duration("v80", 1, 500)),
                     << V80Override("o1", "on"), V80Override("o2", "off") >>,
                     V80Manual)),
      V80ClusterValue("c1", RoleId("v80", "Predefined", 1),
          << MzAclItem("v80", RoleId("v80", "User", 1),
                       RoleId("v80", "User", 1), 256) >>,
          OptNone,
          V80Managed("s2", 0, <<>>, FALSE, OptNone, <<>>,
                     V80Refresh(3600, 0))),
      V80ClusterValue("c3", RoleId("v80", "Public", 0),
          << MzAclItem("v80", RoleId("v80", "User", 2),
                       RoleId("v80", "Predefined", 1), 512),
             MzAclItem("v80", RoleId("v80", "Public", 0),
                       RoleId("v80", "System", 1), 256) >>,
          OptSome("w"),
          V80Managed("s1", 1, <<"z2">>, FALSE,
                     OptSome(Duration("v80", 0, 0)),
                     << V80Override("o1", "off") >>,
                     V80Refresh(1, 500))) }

V80ClusterIds ==
    {ClusterId("v80", "System", 1)}
        \cup {ClusterId("v80", "User", n) : n \in 1..MaxId}

V80Clusters ==
    {[ver |-> "v80", kind |-> "Cluster", key |-> [ver |-> "v80", id |-> id],
      value |-> val] : id \in V80ClusterIds, val \in V80ClusterValues}

\* The cases of v80::StateUpdateKind other than Cluster that the generated
\* snapshots hold; their content is opaque to the step.
OtherKinds == {"Role", "Database"}

V80Others == {[ver |-> "v80", kind |-> k, key |-> 1] : k \in OtherKinds}

V80StateUpdateKind == V80Clusters \cup V80Others

RECURSIVE SeqsUpTo(_, _)
SeqsUpTo(S, n) ==
    IF n = 0 THEN {<<>>}
    ELSE LET shorter == SeqsUpTo(S, n - 1)
         IN  shorter \cup {Append(s, e) : s \in {t \in shorter : Len(t) = n - 1},
                                          e \in S}

\* ----------------------------------------------------- v80 -> v81 mapping

\* A step that files every cluster id under the User case.
upgrade_cluster_id_all_user(id) == [ver |-> "v81", tag |-> "User", id |-> id.id]

upgrade_cluster_id(id) ==
    CASE id.tag = "System" -> [ver |-> "v81", tag |-> "System", id |-> id.id]
      [] id.tag = "User"   -> [ver |-> "v81", tag |-> "User", id |-> id.id]

\* A step that maps the Predefined case onto the System case.
upgrade_role_id_predefined_as_system(id) ==
    CASE id.tag = "System"     -> [ver |-> "v81", tag |-> "System", id |-> id.id]
      [] id.tag = "User"       -> [ver |-> "v81", tag |-> "User", id |-> id.id]
      [] id.tag = "Public"     -> [ver |-> "v81", tag |-> "Public"]
      [] id.tag = "Predefined" -> [ver |-> "v81", tag |-> "System", id |-> id.id]

upgrade_role_id(id) ==
    CASE id.tag = "System"     -> [ver |-> "v81", tag |-> "System", id |-> id.id]
      [] id.tag = "User"       -> [ver |-> "v81", tag |-> "User", id |-> id.id]
      [] id.tag = "Public"     -> [ver |-> "v81", tag |-> "Public"]
      [] id.tag = "Predefined" -> [ver |-> "v81", tag |-> "Predefined",
                                   id |-> id.id]

\* A step that swaps grantee and grantor.
upgrade_mz_acl_item_swapped(item) ==
    [ver |-> "v81",
     grantee |-> upgrade_role_id(item.grantor),
     grantor |-> upgrade_role_id(item.grantee),
     acl_mode |-> [ver |-> "v81", bitflags |-> item.acl_mode.bitflags]]

upgrade_mz_acl_item(item) ==
    [ver |-> "v81",
     grantee |-> upgrade_role_id(item.grantee),
     grantor |-> upgrade_role_id(item.grantor),
     acl_mode |-> [ver |-> "v81", bitflags |-> item.acl_mode.bitflags]]

upgrade_duration(d) == [ver |-> "v81", secs |-> d.secs, nanos |-> d.nanos]

\* m.logging.interval.map(|d| v81::Duration { .. })
upgrade_interval(o) ==
    IF o.tag = "Some" THEN OptSome(upgrade_duration(o.val)) ELSE OptNone

upgrade_override(o) == [ver |-> "v81", name |-> o.name, value |-> o.value]

upgrade_schedule(s) ==
    CASE s.tag = "Manual"  -> [ver |-> "v81", tag |-> "Manual"]
      [] s.tag = "Refresh" ->
            [ver |-> "v81", tag |-> "Refresh",
             r |-> [ver |-> "v81",
                    rehydration_time_estimate |->
                        upgrade_duration(s.r.rehydration_time_estimate)]]

upgrade_cluster_variant(variant) ==
    CASE variant.tag = "Unmanaged" -> [ver |-> "v81", tag |-> "Unmanaged"]
      [] variant.tag = "Managed" ->
            [ver |-> "v81", tag |-> "Managed",
             m |-> [ver |-> "v81",
                    size |-> variant.m.size,
                    replication_factor |-> variant.m.replication_factor,
                    availability_zones |-> variant.m.availability_zones,
                    logging |->
                        [ver |-> "v81",
                         log_logging |-> variant.m.logging.log_logging,
                         interval |-> upgrade_interval(variant.m.logging.interval)],
                    optimizer_feature_overrides |->
                        [k \in 1..Len(variant.m.optimizer_feature_overrides) |->
                            upgrade_override(
                                variant.m.optimizer_feature_overrides[k])],
                    schedule |-> upgrade_schedule(variant.m.schedule)]]

\* A step that seals every migrated cluster.
upgrade_cluster_config_sealed(config) ==
    [ver |-> "v81",
     workload_class |-> config.workload_class,
     variant |-> upgrade_cluster_variant(config.variant),
     sealed |-> TRUE]

\* v81::ClusterConfig { .. }: the new field defaults to false (unsealed).
upgrade_cluster_config(config) ==
    [ver |-> "v81",
     workload_class |-> config.workload_class,
     variant |-> upgrade_cluster_variant(config.variant),
     sealed |-> FALSE]

\* The Cluster arm of the match: the v81 entry built from a v80 cluster.
upgrade_cluster(cluster) ==
    [ver |-> "v81", kind |-> "Cluster",
     key |-> [ver |-> "v81", id |-> upgrade_cluster_id(cluster.key.id)],
     value |->
        [ver |-> "v81",
         name |-> cluster.value.name,
         owner_id |-> upgrade_role_id(cluster.value.owner_id),
         privileges |-> [k \in 1..Len(cluster.value.privileges) |->
                            upgrade_mz_acl_item(cluster.value.privileges[k])],
         config |-> upgrade_cluster_config(cluster.value.config)]]

\* A step that emits Insert(new) and leaves the old entry in place.
MigrationInsertOnly(old, new) == [type |-> "Insert", new |-> new]

MigrationUpdate(old, new) == [type |-> "Update", old |-> old, new |-> new]

\* A closure that skips the system clusters.
upgrade_closure_skip_system(old) ==
    IF old.kind = "Cluster" /\ old.key.id.tag = "User"
    THEN OptSome(MigrationUpdate(old, upgrade_cluster(old)))
    ELSE OptNone

\* A closure that rebuilds `old` from the moved cluster and loses its
\* privileges on the way.
upgrade_closure_rebuilt_old(old) ==
    IF old.kind = "Cluster"
    THEN OptSome(MigrationUpdate([old EXCEPT !.value.privileges = <<>>],
                                 upgrade_cluster(old)))
    ELSE OptNone

\* A closure whose match has no arm for Database.
upgrade_closure_partial(old) ==
    CASE old.kind = "Cluster" ->
            OptSome(MigrationUpdate(old, upgrade_cluster(old)))
      [] old.kind = "Database" -> [tag |-> "Unhandled"]
      [] OTHER -> OptNone

\* The closure handed to filter_map: Some(Update(old, new)) for a Cluster,
\* None for every other case.
upgrade_closure(old) ==
    IF old.kind = "Cluster"
    THEN OptSome(MigrationUpdate(old, upgrade_cluster(old)))
    ELSE OptNone

\* ------------------------------------------------------------------ state

VARIABLES
    snapshot,   \* the Vec<v80::StateUpdateKind> handed to upgrade
    pc,         \* "upgrade", "returned", "applied" or "failed"
    next,       \* position of into_iter(): the next entry to visit
    visited,    \* what the closure returned for each entry visited so far
    actions,    \* the Vec<MigrationAction> collected so far
    working,    \* the Applier's evolving snapshot
    done        \* number of actions the Applier has folded in

vars == <<snapshot, pc, next, visited, actions, working, done>>

Init ==
    /\ snapshot \in SeqsUpTo(V80StateUpdateKind, MaxLen)
    /\ pc = "upgrade"
    /\ next = 1
    /\ visited = <<>>
    /\ actions = <<>>
    /\ working = <<>>
    /\ done = 0

\* A step that drops a cluster whose key an earlier action already names.
UpgradeStepDedup ==
    /\ pc = "upgrade"
    /\ next <= Len(snapshot)
    /\ LET r == upgrade_closure(snapshot[next])
           seen == r.tag = "Some" /\ \E k \in 1..Len(actions) :
                                        actions[k].old.key = r.val.old.key
       IN  /\ visited' = Append(visited, r.tag)
           /\ actions' = IF r.tag = "Some" /\ ~seen THEN Append(actions, r.val)
                         ELSE actions
    /\ next' = next + 1
    /\ UNCHANGED <<snapshot, pc, working, done>>

\* One turn of filter_map: the closure runs on the next entry and its
\* action, if any, is pushed.
UpgradeStep ==
    /\ pc = "upgrade"
    /\ next <= Len(snapshot)
    /\ LET r == upgrade_closure(snapshot[next])
       IN  /\ visited' = Append(visited, r.tag)
           /\ actions' = IF r.tag = "Some" THEN Append(actions, r.val)
                         ELSE actions
    /\ next' = next + 1
    /\ UNCHANGED <<snapshot, pc, working, done>>

\* The iterator is exhausted: collect() and return.  The caller hands the
\* snapshot and the actions to the Applier.
UpgradeReturn ==
    /\ pc = "upgrade"
    /\ next > Len(snapshot)
    /\ pc' = "returned"
    /\ working' = snapshot
    /\ UNCHANGED <<snapshot, next, visited, actions, done>>

\* ------------------------------------------------------- Snapshot Applier

\* An entry of the evolving snapshot is the one an action's `old` names.
KeyMatches(e, old) == e.ver = old.ver /\ e.kind = old.kind /\ e.key = old.key

Hits(snap, old) == {k \in 1..Len(snap) : KeyMatches(snap[k], old)}

RemoveAt(s, k) == [n \in 1..(Len(s) - 1) |-> IF n < k THEN s[n] ELSE s[n + 1]]

\* apply one action: [ok, snap].  Insert appends unless the key is taken;
\* Update replaces, and Delete removes, the unique entry matching `old`.
apply_action(snap, a) ==
    CASE a.type = "Insert" ->
            IF Hits(snap, a.new) # {} THEN [ok |-> FALSE, snap |-> snap]
            ELSE [ok |-> TRUE, snap |-> Append(snap, a.new)]
      [] a.type = "Update" ->
            IF Cardinality(Hits(snap, a.old)) # 1
            THEN [ok |-> FALSE, snap |-> snap]
            ELSE LET k == CHOOSE h \in Hits(snap, a.old) : TRUE
                 IN  [ok |-> TRUE, snap |-> [snap EXCEPT ![k] = a.new]]
      [] a.type = "Delete" ->
            IF Cardinality(Hits(snap, a.old)) # 1
            THEN [ok |-> FALSE, snap |-> snap]
            ELSE LET k == CHOOSE h \in Hits(snap, a.old) : TRUE
                 IN  [ok |-> TRUE, snap |-> RemoveAt(snap, k)]

\* An entry no action touched, read under the new version's type: the same
\* content, the type's version changed.
Cast(e) == IF e.ver = "v80" THEN [e EXCEPT !.ver = "v81"] ELSE e

\* The Applier folds the next action in, or fails on it.
ApplyStep ==
    /\ pc = "returned"
    /\ done < Len(actions)
    /\ LET r == apply_action(working, actions[done + 1])
       IN  IF r.ok
           THEN /\ working' = r.snap
                /\ done' = done + 1
                /\ pc' = pc
           ELSE /\ pc' = "failed"
                /\ UNCHANGED <<working, done>>
    /\ UNCHANGED <<snapshot, next, visited, actions>>

\* Every action is folded in: the untouched entries are carried forward.
ApplyFinish ==
    /\ pc = "returned"
    /\ done = Len(actions)
    /\ working' = [k \in 1..Len(working) |-> Cast(working[k])]
    /\ pc' = "applied"
    /\ UNCHANGED <<snapshot, next, visited, actions, done>>

Next == UpgradeStep \/ UpgradeReturn \/ ApplyStep \/ ApplyFinish

Spec == Init /\ [][Next]_vars

\* ------------------------------------------------------------ properties

ClusterIdx == {k \in 1..Len(snapshot) : snapshot[k].kind = "Cluster"}

\* The position in the snapshot of its k-th Cluster entry.
NthCluster(k) ==
    CHOOSE i \in ClusterIdx : Cardinality({j \in ClusterIdx : j <= i}) = k

HasDupClusterKeys ==
    \E i, j \in ClusterIdx : i # j /\ snapshot[i].key = snapshot[j].key

NoDupKeys ==
    \A i, j \in 1..Len(snapshot) :
        i # j => ~(snapshot[i].kind = snapshot[j].kind
                   /\ snapshot[i].key = snapshot[j].key)

ActionIdx == 1..Len(actions)

\* Same case and same inner id, whatever the version of the type.
SameId(o, n) == n.tag = o.tag /\ (o.tag # "Public" => n.id = o.id)

SameDuration(o, n) == n.secs = o.secs /\ n.nanos = o.nanos

SameAclItem(o, n) ==
    /\ SameId(o.grantee, n.grantee)
    /\ SameId(o.grantor, n.grantor)
    /\ n.acl_mode.bitflags = o.acl_mode.bitflags

SameSchedule(o, n) ==
    /\ n.tag = o.tag
    /\ o.tag = "Refresh" =>
          SameDuration(o.r.rehydration_time_estimate,
                       n.r.rehydration_time_estimate)

SameManaged(o, n) ==
    /\ n.size = o.size
    /\ n.replication_factor = o.replication_factor
    /\ n.availability_zones = o.availability_zones
    /\ n.logging.log_logging = o.logging.log_logging
    /\ n.logging.interval.tag = o.logging.interval.tag
    /\ o.logging.interval.tag = "Some" =>
          SameDuration(o.logging.interval.val, n.logging.interval.val)
    /\ Len(n.optimizer_feature_overrides) = Len(o.optimizer_feature_overrides)
    /\ \A k \in 1..Len(o.optimizer_feature_overrides) :
          /\ n.optimizer_feature_overrides[k].name =
                o.optimizer_feature_overrides[k].name
          /\ n.optimizer_feature_overrides[k].value =
                o.optimizer_feature_overrides[k].value
    /\ SameSchedule(o.schedule, n.schedule)

SameVariant(o, n) ==
    /\ n.tag = o.tag
    /\ o.tag = "Managed" => SameManaged(o.m, n.m)

\* C1: every action is an Update whose new value is a v81 Cluster with
\* config.sealed = false, whatever the old cluster held.
C1_SealedIsFalse ==
    \A k \in ActionIdx :
        /\ actions[k].type = "Update"
        /\ actions[k].new.ver = "v81"
        /\ actions[k].new.kind = "Cluster"
        /\ actions[k].new.value.config.ver = "v81"
        /\ actions[k].new.value.config.sealed = FALSE

\* upgrade has returned actions for a managed and for an unmanaged cluster.
C1_Witness ==
    /\ pc = "returned"
    /\ \E j, k \in ActionIdx :
          /\ actions[j].old.value.config.variant.tag = "Managed"
          /\ actions[k].old.value.config.variant.tag = "Unmanaged"

\* C2: in every Update(old, new), every field both shapes have is equal in
\* old and new: name, owner id, privileges (length, order, grantee, grantor,
\* bitflags), workload class and variant (with all of a Managed's fields).
C2_FieldsPreserved ==
    \A k \in ActionIdx :
        LET o == actions[k].old.value
            n == actions[k].new.value
        IN  /\ n.name = o.name
            /\ SameId(o.owner_id, n.owner_id)
            /\ Len(n.privileges) = Len(o.privileges)
            /\ \A i \in 1..Len(o.privileges) :
                  SameAclItem(o.privileges[i], n.privileges[i])
            /\ n.config.workload_class = o.config.workload_class
            /\ SameVariant(o.config.variant, n.config.variant)

\* upgrade has returned the action of a managed cluster with two privileges,
\* a workload class, a logging interval and a refresh schedule.
C2_Witness ==
    /\ pc = "returned"
    /\ \E k \in ActionIdx :
          LET o == actions[k].old.value
          IN  /\ Len(o.privileges) = 2
              /\ o.privileges[1].grantee # o.privileges[1].grantor
              /\ o.config.workload_class.tag = "Some"
              /\ o.config.variant.tag = "Managed"
              /\ o.config.variant.m.logging.interval.tag = "Some"
              /\ o.config.variant.m.schedule.tag = "Refresh"

\* C3: the returned actions are the Cluster entries of the input, in input
\* order, one Update each: the k-th action's old is the k-th Cluster entry;
\* no other entry gets an action, and no Insert or Delete is emitted.
C3_ActionsAreClustersInOrder ==
    pc # "upgrade" =>
        /\ Len(actions) = Cardinality(ClusterIdx)
        /\ \A k \in ActionIdx :
              /\ actions[k].type = "Update"
              /\ actions[k].old = snapshot[NthCluster(k)]

\* upgrade has returned two actions for two clusters that a non-cluster
\* entry separates.
C3_Witness ==
    /\ pc = "returned"
    /\ Len(snapshot) = 3
    /\ snapshot[1].kind = "Cluster"
    /\ snapshot[2].kind # "Cluster"
    /\ snapshot[3].kind = "Cluster"
    /\ snapshot[1] # snapshot[3]
    /\ Len(actions) = 2

\* Some snapshot without a cluster yields the empty sequence.
C3_EmptyWitness ==
    pc = "returned" /\ snapshot # <<>> /\ ClusterIdx = {} /\ actions = <<>>

\* C4: the old of every action is an entry of the input, unmodified; when
\* no two Cluster entries share a key, it matches exactly one entry and no
\* two actions name the same entry.
C4_OldResolvesUniquely ==
    /\ \A k \in ActionIdx :
          \E i \in 1..Len(snapshot) : snapshot[i] = actions[k].old
    /\ ~HasDupClusterKeys =>
          /\ \A k \in ActionIdx :
                Cardinality(Hits(snapshot, actions[k].old)) = 1
          /\ \A j, k \in ActionIdx :
                j # k => Hits(snapshot, actions[j].old)
                            # Hits(snapshot, actions[k].old)

\* upgrade has returned two actions on a snapshot without duplicate cluster
\* keys.
C4_Witness ==
    pc = "returned" /\ ~HasDupClusterKeys /\ Len(actions) = 2

\* C5: on a snapshot without duplicate keys the Applier succeeds, and the
\* v81 snapshot has as many entries as the input: at position i the
\* translated cluster when input entry i is a Cluster, the unchanged input
\* entry otherwise.
C5_EveryEntryAccountedFor ==
    NoDupKeys =>
        /\ pc # "failed"
        /\ pc = "applied" =>
              /\ Len(working) = Len(snapshot)
              /\ \A i \in 1..Len(snapshot) :
                    /\ working[i].ver = "v81"
                    /\ working[i].kind = snapshot[i].kind
                    /\ IF snapshot[i].kind = "Cluster"
                       THEN /\ SameId(snapshot[i].key.id, working[i].key.id)
                            /\ working[i].value.ver = "v81"
                            /\ working[i].value.name = snapshot[i].value.name
                            /\ \E k \in ActionIdx :
                                  /\ actions[k].old = snapshot[i]
                                  /\ actions[k].new = working[i]
                       ELSE working[i].key = snapshot[i].key

\* The Applier has finished on a snapshot of two clusters and one other
\* entry, no two with the same key.
C5_Witness ==
    /\ pc = "applied"
    /\ NoDupKeys
    /\ Len(snapshot) = 3
    /\ Cardinality(ClusterIdx) = 2

C6_EmptyWitness == pc = "returned" /\ snapshot = <<>>

\* C7 as stated: on a snapshot with two Cluster entries of the same key the
\* step aborts instead of returning actions.
C7_AbortsOnKeyCollision == HasDupClusterKeys => pc = "upgrade"

\* C7 as amended: on a snapshot with two Cluster entries of the same key the
\* step does not abort; it returns one Update per Cluster entry, the
\* colliding ones included.
C7_ReturnsOnKeyCollision ==
    /\ (HasDupClusterKeys /\ pc = "upgrade") =>
          ENABLED (UpgradeStep \/ UpgradeReturn)
    /\ (HasDupClusterKeys /\ pc # "upgrade") =>
          \A i \in ClusterIdx :
              \E k \in ActionIdx :
                  /\ actions[k].type = "Update"
                  /\ actions[k].old = snapshot[i]
                  /\ Cardinality({j \in ClusterIdx : j <= i}) = k

\* With the Applier of section 4.2 the collision still ends the upgrade: the
\* Update of a colliding entry finds its old key twice and is rejected.
C7_ApplierRejectsCollision == HasDupClusterKeys => pc # "applied"

\* upgrade has returned two actions for two clusters of the same key and
\* different values.
C7_Witness ==
    /\ pc = "returned"
    /\ Len(actions) = 2
    /\ actions[1].old.key = actions[2].old.key
    /\ actions[1].old # actions[2].old

\* C9: the key of new names the same cluster as the key of old: same case,
\* same inner id; clusters with distinct v80 keys get distinct v81 keys.
C9_KeyStable ==
    /\ \A k \in ActionIdx :
          /\ actions[k].new.key.ver = "v81"
          /\ SameId(actions[k].old.key.id, actions[k].new.key.id)
    /\ \A j, k \in ActionIdx :
          actions[j].old.key # actions[k].old.key
              => actions[j].new.key # actions[k].new.key

\* upgrade has returned actions for a System and a User cluster with the
\* same inner id.
C9_Witness ==
    /\ pc = "returned"
    /\ \E j, k \in ActionIdx :
          /\ actions[j].old.key.id.tag = "System"
          /\ actions[k].old.key.id.tag = "User"
          /\ actions[j].old.key.id.id = actions[k].old.key.id.id

\* The role ids a cluster value embeds, each with its translation.
RolePairs(a) ==
    {<<a.old.value.owner_id, a.new.value.owner_id>>}
        \cup {<<a.old.value.privileges[i].grantee,
                a.new.value.privileges[i].grantee>> :
                    i \in DOMAIN a.old.value.privileges
                          \cap DOMAIN a.new.value.privileges}
        \cup {<<a.old.value.privileges[i].grantor,
                a.new.value.privileges[i].grantor>> :
                    i \in DOMAIN a.old.value.privileges
                          \cap DOMAIN a.new.value.privileges}

AllRolePairs == UNION {RolePairs(actions[k]) : k \in ActionIdx}

\* C10: owner_id, grantee and grantor are all translated by upgrade_role_id,
\* which keeps the case and the inner id: two embedded role ids are equal
\* after the step if and only if they were equal before it.
C10_RoleIdsConsistent ==
    /\ \A p \in AllRolePairs :
          /\ p[2] = upgrade_role_id(p[1])
          /\ p[2].ver = "v81"
          /\ SameId(p[1], p[2])
    /\ \A p, q \in AllRolePairs : (p[1] = q[1]) <=> (p[2] = q[2])

\* upgrade has returned actions that embed role ids of all four cases, one
\* of them as an owner and as a grantee.
C10_Witness ==
    /\ pc = "returned"
    /\ {p[1].tag : p \in AllRolePairs} = {"System", "User", "Public", "Predefined"}
    /\ \E j, k \in ActionIdx :
          /\ j # k
          /\ Len(actions[k].old.value.privileges) > 0
          /\ actions[j].old.value.owner_id
                = actions[k].old.value.privileges[1].grantee

====
